---- MODULE Spec2Model ----
(***************************************************************************)
(* Model of the carbon-footprint tracker (src/main.py): the Flask          *)
(* application with its two routes, index() and calculate(), the two       *)
(* module-level tables, the session's flash queue and the error log.       *)
(*                                                                         *)
(* Text is a tuple of one-character strings, so that float() can be        *)
(* modelled by what it does to the characters.  A float is a record: a     *)
(* finite value is the exact decimal  (-1)^neg * num / den  with den a     *)
(* power of ten in lowest terms, and inf, -inf and nan are values of       *)
(* their own.  The sign of zero is kept.  Binary rounding and overflow     *)
(* of finite values are not modelled.                                      *)
(***************************************************************************)
EXTENDS Integers, Sequences, FiniteSets

VARIABLES
    EMISSION_FACTORS,   \* the module-level dict of main.py:32
    ALTERNATIVES,       \* the module-level dict of main.py:39
    pc,                 \* pc[c]: where client c's request is in its handler
    req,                \* req[c]: the form of c's latest POST /calculate
    frame,              \* frame[c]: the locals of calculate() for c's request
    session,            \* session[c]: c's flash queue (Flask session '_flashes')
    resp,               \* resp[c]: the response c received last
    log,                \* the records logging.error has emitted
    served,             \* served[c]: number of requests received from c so far
    lastPage,           \* lastPage[c]: request number of the last page rendered for c
    lastIndex,          \* lastIndex[c]: request number of the last index page rendered for c
    shown,              \* shown[c]: ids of the messages a page has displayed to c
    failed              \* number of calculate() calls that ended in a redirect

vars == <<EMISSION_FACTORS, ALTERNATIVES, pc, req, frame, session, resp, log,
          served, lastPage, lastIndex, shown, failed>>

\* Bounds of the model.
MaxRequests == 3

Clients == {"c1", "c2"}

----------------------------------------------------------------------------
(* Floats *)

Fin(neg, num, den) == [kind |-> "fin", neg |-> neg, num |-> num, den |-> den]
Inf(neg) == [kind |-> "inf", neg |-> neg, num |-> 0, den |-> 1]
NaN == [kind |-> "nan", neg |-> FALSE, num |-> 0, den |-> 1]

RECURSIVE Pow10(_)
Pow10(n) == IF n = 0 THEN 1 ELSE 10 * Pow10(n - 1)

\* num/den in lowest terms among the fractions whose denominator is a power of ten.
RECURSIVE Reduce(_, _, _)
Reduce(neg, num, den) ==
    IF num = 0 THEN Fin(neg, 0, 1)
    ELSE IF den > 1 /\ num % 10 = 0 THEN Reduce(neg, num \div 10, den \div 10)
    ELSE Fin(neg, num, den)

\* IEEE 754 multiplication, as Python's float.__mul__ does it.
FloatMul(x, y) ==
    IF x.kind = "nan" \/ y.kind = "nan" THEN NaN
    ELSE IF x.kind = "inf" \/ y.kind = "inf"
         THEN IF (x.kind = "fin" /\ x.num = 0) \/ (y.kind = "fin" /\ y.num = 0)
              THEN NaN
              ELSE Inf(x.neg # y.neg)
    ELSE Reduce(x.neg # y.neg, x.num * y.num, x.den * y.den)

\* Python's == on floats: nan equals nothing, and -0.0 == 0.0.
FloatEq(x, y) ==
    /\ x.kind # "nan"
    /\ y.kind # "nan"
    /\ x.kind = y.kind
    /\ x.num = y.num
    /\ x.den = y.den
    /\ (x.neg = y.neg \/ (x.kind = "fin" /\ x.num = 0))

\* Python's >= 0 on a float.
FloatNonNegative(x) ==
    /\ x.kind # "nan"
    /\ (~x.neg \/ (x.kind = "fin" /\ x.num = 0))

----------------------------------------------------------------------------
(* float(str) *)

Digits == {"0", "1", "2", "3", "4", "5", "6", "7", "8", "9"}
Whitespace == {" ", "\t", "\n"}

DigitVal(ch) ==
    CASE ch = "0" -> 0 [] ch = "1" -> 1 [] ch = "2" -> 2 [] ch = "3" -> 3
      [] ch = "4" -> 4 [] ch = "5" -> 5 [] ch = "6" -> 6 [] ch = "7" -> 7
      [] ch = "8" -> 8 [] ch = "9" -> 9

Lower(ch) ==
    CASE ch = "I" -> "i" [] ch = "N" -> "n" [] ch = "F" -> "f" [] ch = "A" -> "a"
      [] ch = "T" -> "t" [] ch = "Y" -> "y" [] ch = "E" -> "e"
      [] OTHER -> ch

LowerText(s) == [i \in 1..Len(s) |-> Lower(s[i])]

\* str.strip(): the text without its leading and trailing whitespace.
Strip(s) ==
    LET inner == {i \in 1..Len(s) : s[i] \notin Whitespace}
    IN  IF inner = {} THEN <<>>
        ELSE LET lo == CHOOSE i \in inner : \A j \in inner : i <= j
                 hi == CHOOSE i \in inner : \A j \in inner : j <= i
             IN  SubSeq(s, lo, hi)

\* Index of the first character of s that is in chars, 0 when there is none.
IndexOf(s, chars) ==
    LET at == {i \in 1..Len(s) : s[i] \in chars}
    IN  IF at = {} THEN 0 ELSE CHOOSE i \in at : \A j \in at : i <= j

HasSign(s) == Len(s) > 0 /\ s[1] \in {"+", "-"}
Unsigned(s) == IF HasSign(s) THEN SubSeq(s, 2, Len(s)) ELSE s
IsNegative(s) == Len(s) > 0 /\ s[1] = "-"

\* digitpart ::= digit (["_"] digit)*
IsDigitPart(s) ==
    /\ Len(s) > 0
    /\ s[1] \in Digits
    /\ s[Len(s)] \in Digits
    /\ \A i \in 1..Len(s) : s[i] \in Digits \cup {"_"}
    /\ \A i \in 1..(Len(s) - 1) : ~(s[i] = "_" /\ s[i + 1] = "_")

IsDigit(ch) == ch \in Digits

RECURSIVE NatOf(_)
NatOf(s) ==
    IF Len(s) = 0 THEN 0
    ELSE 10 * NatOf(SubSeq(s, 1, Len(s) - 1)) + DigitVal(s[Len(s)])

DigitsOf(s) == SelectSeq(s, IsDigit)

\* The pieces of an unsigned decimal literal: mantissa and exponent, and the
\* mantissa's integer and fraction parts.
Mantissa(s) ==
    LET e == IndexOf(s, {"e", "E"})
    IN  IF e = 0 THEN s ELSE SubSeq(s, 1, e - 1)
HasExponent(s) == IndexOf(s, {"e", "E"}) # 0
Exponent(s) == SubSeq(s, IndexOf(s, {"e", "E"}) + 1, Len(s))
IntPart(m) ==
    LET p == IndexOf(m, {"."})
    IN  IF p = 0 THEN m ELSE SubSeq(m, 1, p - 1)
FracPart(m) ==
    LET p == IndexOf(m, {"."})
    IN  IF p = 0 THEN <<>> ELSE SubSeq(m, p + 1, Len(m))

IsDecimal(s) ==
    LET m == Mantissa(s)
    IN  /\ IF IndexOf(m, {"."}) = 0
           THEN IsDigitPart(m)
           ELSE /\ IntPart(m) = <<>> \/ IsDigitPart(IntPart(m))
                /\ FracPart(m) = <<>> \/ IsDigitPart(FracPart(m))
                /\ IntPart(m) # <<>> \/ FracPart(m) # <<>>
        /\ HasExponent(s) => IsDigitPart(Unsigned(Exponent(s)))

IsSpecial(s) ==
    LowerText(s) \in {<<"i", "n", "f">>, <<"n", "a", "n">>,
                      <<"i", "n", "f", "i", "n", "i", "t", "y">>}

\* The texts float() accepts.
IsFloatLiteral(text) ==
    LET body == Unsigned(Strip(text))
    IN  IsSpecial(body) \/ IsDecimal(body)

DecimalValue(neg, s) ==
    LET m == Mantissa(s)
        frac == DigitsOf(FracPart(m))
        n == NatOf(DigitsOf(IntPart(m)) \o frac)
        ex == IF HasExponent(s)
              THEN (IF IsNegative(Exponent(s)) THEN -1 ELSE 1)
                   * NatOf(DigitsOf(Unsigned(Exponent(s))))
              ELSE 0
        k == ex - Len(frac)
    IN  IF k >= 0 THEN Reduce(neg, n * Pow10(k), 1) ELSE Reduce(neg, n, Pow10(-k))

\* The value float() returns for a text it accepts.
FloatValue(text) ==
    LET s == Strip(text)
        body == Unsigned(s)
        neg == IsNegative(s)
    IN  IF LowerText(body) = <<"n", "a", "n">> THEN NaN
        ELSE IF IsSpecial(body) THEN Inf(neg)
        ELSE DecimalValue(neg, body)

----------------------------------------------------------------------------
(* Python values the handlers use *)

None == <<>>
Some(v) == <<v>>

Raised(exc) == [raises |-> exc]
Returned(v) == [raises |-> "none", value |-> v]

\* float(x): TypeError for None, ValueError for a text that is no float
\* literal, the value otherwise.
float_of_empty_as_zero(x) ==
    IF x = None THEN Raised("TypeError")
    ELSE IF Strip(x[1]) = <<>> THEN Returned(Fin(FALSE, 0, 1))
    ELSE IF ~IsFloatLiteral(x[1]) THEN Raised("ValueError")
    ELSE Returned(FloatValue(x[1]))

float_(x) ==
    IF x = None THEN Raised("TypeError")
    ELSE IF ~IsFloatLiteral(x[1]) THEN Raised("ValueError")
    ELSE Returned(FloatValue(x[1]))

\* dict.get(key, default): the value it returns.
DictGet(d, key, default) ==
    IF key # None /\ key[1] \in DOMAIN d THEN d[key[1]] ELSE default

\* dict.get(key, default): the dict it leaves behind.
DictAfterGet_setdefault(d, key, default) ==
    IF key # None /\ key[1] \notin DOMAIN d
    THEN [k \in DOMAIN d \cup {key[1]} |-> IF k \in DOMAIN d THEN d[k] ELSE default]
    ELSE d

DictAfterGet_pop(d, key, default) ==
    IF key # None /\ key[1] \in DOMAIN d
    THEN [k \in DOMAIN d \ {key[1]} |-> d[k]]
    ELSE d

DictAfterGet(d, key, default) == d

\* request.form.get(name): the field's text, None when the form lacks it.
FormGet(form, name) == IF name \in DOMAIN form THEN Some(form[name]) ELSE None

\* The except clause that handles an exception raised inside the try block.
ExceptClause(exc) ==
    IF exc = "ValueError" THEN "except_ValueError" ELSE "except_Exception"

\* flash(message): appended to the session's queue.  id is the number of the
\* request that client's request that flashed it, kept to tell two equal messages apart.
flash_dropped(queue, id, message) == queue

flash(queue, id, message) == Append(queue, [id |-> id, message |-> message])

\* get_flashed_messages(): the messages it returns and the queue it leaves.
GetFlashedMessages(queue) == queue

SessionAfterGetFlashed_kept(queue) == queue

SessionAfterGetFlashed(queue) == <<>>

\* logging.error(msg)
logging_as_warning(records, msg) == Append(records, [level |-> "WARNING", msg |-> msg])

logging_error(records, msg) == Append(records, [level |-> "ERROR", msg |-> msg])

----------------------------------------------------------------------------
(* The application *)

InitialEmissionFactors ==
    [electricity |-> Reduce(FALSE, 233, 1000),
     gasoline    |-> Reduce(FALSE, 2310, 1000),
     natural_gas |-> Reduce(FALSE, 2204, 1000)]

InitialAlternatives ==
    [electricity |-> "Consider switching to renewable energy sources or using energy-efficient appliances.",
     gasoline    |-> "Consider using public transportation or switching to an electric vehicle.",
     natural_gas |-> "Consider improving home insulation or using energy-efficient HVAC systems."]

DefaultFactor == Fin(FALSE, 0, 1)
DefaultSuggestion == "No suggestion available."
InvalidInputMessage == "Invalid input. Please enter a numeric value for amount."
GenericErrorMessage == "An error occurred. Please try again."
InvalidInputLog == "Invalid input for amount; conversion to float failed."
UnexpectedErrorLog == "An unexpected error occurred: float() argument must be a string or a real number, not 'NoneType'"

\* round(x, 2) of a float, half up on the exact decimal.
Round2(x) ==
    IF x.kind = "fin"
    THEN Reduce(x.neg, (x.num * 100 + (x.den \div 2)) \div x.den, 100)
    ELSE x

\* EMISSION_FACTORS.get(activity_type, 0) * amount
emissions_rounded(activity_type, amount) ==
    Round2(FloatMul(DictGet(EMISSION_FACTORS, activity_type, DefaultFactor), amount))

emissions_default_one(activity_type, amount) ==
    FloatMul(DictGet(EMISSION_FACTORS, activity_type, Fin(FALSE, 1, 1)), amount)

emissions_of(activity_type, amount) ==
    FloatMul(DictGet(EMISSION_FACTORS, activity_type, DefaultFactor), amount)

\* ALTERNATIVES.get(activity_type, "No suggestion available.")
alternative_default_none(activity_type) ==
    DictGet(ALTERNATIVES, activity_type, "None")

alternative_of(activity_type) ==
    DictGet(ALTERNATIVES, activity_type, DefaultSuggestion)

\* The form submissions the model draws from: each known key with
\* non-negative amounts, one known key with zero, negative and special
\* amounts, unknown and absent keys with every kind of amount float()
\* accepts, texts float() rejects with known, unknown and absent keys, and
\* forms without an amount field.
T_10 == <<"1", "0">>
T_5 == <<"5">>
T_2 == <<"2">>
T_0 == <<"0">>
T_minus3 == <<"-", "3">>
T_inf == <<"i", "n", "f">>
T_nan == <<"n", "a", "n">>
T_ten == <<"t", "e", "n">>
T_empty == <<>>
T_1comma2 == <<"1", ",", "2">>

KnownKeys == {"electricity", "gasoline", "natural_gas"}
UnknownKeys == {"solar"}
NumericTexts == {T_10, T_5, T_2, T_0, T_minus3, T_inf, T_nan}
NonNumericTexts == {T_ten, T_empty, T_1comma2}

Forms ==
    {[activity_type |-> a, amount |-> s] : a \in KnownKeys, s \in {T_10, T_5, T_2}}
    \cup {[activity_type |-> "electricity", amount |-> s] :
              s \in {T_0, T_minus3, T_inf, T_nan}}
    \cup {[activity_type |-> a, amount |-> s] :
              a \in UnknownKeys, s \in {T_10, T_minus3, T_inf, T_nan}}
    \cup {[amount |-> s] : s \in {T_10, T_minus3, T_inf, T_nan}}
    \cup {[activity_type |-> a, amount |-> s] :
              a \in {"electricity", "solar"}, s \in NonNumericTexts}
    \cup {[amount |-> s] : s \in NonNumericTexts}
    \cup {[activity_type |-> a] : a \in {"electricity", "solar"}}

\* Number of requests received so far.
Received == served["c1"] + served["c2"]

NoForm == [none |-> TRUE]
NoFrame == [returned |-> TRUE]
NoResponse == [kind |-> "none"]

Init ==
    /\ EMISSION_FACTORS = InitialEmissionFactors
    /\ ALTERNATIVES = InitialAlternatives
    /\ pc = [c \in Clients |-> "idle"]
    /\ req = [c \in Clients |-> [no |-> 0, form |-> NoForm]]
    /\ frame = [c \in Clients |-> NoFrame]
    /\ session = [c \in Clients |-> <<>>]
    /\ resp = [c \in Clients |-> NoResponse]
    /\ log = <<>>
    /\ served = [c \in Clients |-> 0]
    /\ lastPage = [c \in Clients |-> 0]
    /\ lastIndex = [c \in Clients |-> 0]
    /\ shown = [c \in Clients |-> {}]
    /\ failed = 0

\* GET /: index() renders index.html, whose get_flashed_messages() shows the
\* queued messages and empties the queue.
index(c) ==
    /\ pc[c] = "idle"
    /\ Received < MaxRequests
    /\ served' = [served EXCEPT ![c] = @ + 1]
    /\ resp' = [resp EXCEPT ![c] =
                   [kind |-> "index", messages |-> GetFlashedMessages(session[c])]]
    /\ session' = [session EXCEPT ![c] = SessionAfterGetFlashed(session[c])]
    /\ lastPage' = [lastPage EXCEPT ![c] = served[c] + 1]
    /\ lastIndex' = [lastIndex EXCEPT ![c] = served[c] + 1]
    /\ shown' = [shown EXCEPT ![c] =
                    @ \cup {session[c][i].id : i \in 1..Len(session[c])}]
    /\ UNCHANGED <<EMISSION_FACTORS, ALTERNATIVES, pc, req, frame, log, failed>>

\* POST /calculate, lines 54-57: read the two fields and convert the amount.
calculate_read(c, form) ==
    /\ pc[c] = "idle"
    /\ Received < MaxRequests
    /\ served' = [served EXCEPT ![c] = @ + 1]
    /\ req' = [req EXCEPT ![c] = [no |-> served[c] + 1, form |-> form]]
    /\ resp' = [resp EXCEPT ![c] = NoResponse]
    /\ LET activity_type == FormGet(form, "activity_type")
           amount == float_(FormGet(form, "amount"))
       IN  IF amount.raises = "none"
           THEN /\ frame' = [frame EXCEPT ![c] =
                                [activity_type |-> activity_type, amount |-> amount.value]]
                /\ pc' = [pc EXCEPT ![c] = "lookup"]
           ELSE /\ frame' = [frame EXCEPT ![c] = [activity_type |-> activity_type]]
                /\ pc' = [pc EXCEPT ![c] = ExceptClause(amount.raises)]
    /\ UNCHANGED <<EMISSION_FACTORS, ALTERNATIVES, session, log, lastPage, lastIndex,
                   shown, failed>>

\* Lines 60-61: the two table lookups and the multiplication.
calculate_lookup(c) ==
    /\ pc[c] = "lookup"
    /\ frame' = [frame EXCEPT ![c] =
                    [activity_type |-> frame[c].activity_type,
                     amount |-> frame[c].amount,
                     emissions |-> emissions_of(frame[c].activity_type, frame[c].amount),
                     alternative_suggestion |-> alternative_of(frame[c].activity_type)]]
    /\ EMISSION_FACTORS' =
           DictAfterGet(EMISSION_FACTORS, frame[c].activity_type, DefaultFactor)
    /\ ALTERNATIVES' =
           DictAfterGet(ALTERNATIVES, frame[c].activity_type, DefaultSuggestion)
    /\ pc' = [pc EXCEPT ![c] = "render"]
    /\ UNCHANGED <<req, session, resp, log, served, lastPage, lastIndex, shown, failed>>

\* Line 63: result.html, which shows the two values and no flashed message.
calculate_render(c) ==
    /\ pc[c] = "render"
    /\ resp' = [resp EXCEPT ![c] =
                   [kind |-> "result",
                    emissions |-> frame[c].emissions,
                    alternative |-> frame[c].alternative_suggestion]]
    /\ lastPage' = [lastPage EXCEPT ![c] = req[c].no]
    /\ frame' = [frame EXCEPT ![c] = NoFrame]
    /\ pc' = [pc EXCEPT ![c] = "idle"]
    /\ UNCHANGED <<EMISSION_FACTORS, ALTERNATIVES, req, session, log, served,
                   lastIndex, shown, failed>>

\* Lines 65-69: except ValueError.
calculate_except_ValueError(c) ==
    /\ pc[c] = "except_ValueError"
    /\ session' = [session EXCEPT ![c] = flash(@, req[c].no, InvalidInputMessage)]
    /\ log' = logging_error(log, InvalidInputLog)
    /\ resp' = [resp EXCEPT ![c] = [kind |-> "redirect", location |-> "index"]]
    /\ failed' = failed + 1
    /\ frame' = [frame EXCEPT ![c] = NoFrame]
    /\ pc' = [pc EXCEPT ![c] = "idle"]
    /\ UNCHANGED <<EMISSION_FACTORS, ALTERNATIVES, req, served, lastPage, lastIndex, shown>>

\* Lines 71-75: except Exception.
calculate_except_Exception(c) ==
    /\ pc[c] = "except_Exception"
    /\ session' = [session EXCEPT ![c] = flash(@, req[c].no, GenericErrorMessage)]
    /\ log' = logging_error(log, UnexpectedErrorLog)
    /\ resp' = [resp EXCEPT ![c] = [kind |-> "redirect", location |-> "index"]]
    /\ failed' = failed + 1
    /\ frame' = [frame EXCEPT ![c] = NoFrame]
    /\ pc' = [pc EXCEPT ![c] = "idle"]
    /\ UNCHANGED <<EMISSION_FACTORS, ALTERNATIVES, req, served, lastPage, lastIndex, shown>>

Next ==
    \E c \in Clients :
        \/ index(c)
        \/ \E form \in Forms : calculate_read(c, form)
        \/ calculate_lookup(c)
        \/ calculate_render(c)
        \/ calculate_except_ValueError(c)
        \/ calculate_except_Exception(c)

Spec == Init /\ [][Next]_vars

----------------------------------------------------------------------------
(* What the claims speak about *)

\* c's latest calculate() has returned and c still holds its response.
Completed(c) == pc[c] = "idle" /\ resp[c].kind \in {"result", "redirect"}

\* c's latest calculate() is between two of its steps.
InFlight(c) == pc[c] # "idle"

HasAmount(c) == "amount" \in DOMAIN req[c].form
Activity(c) == FormGet(req[c].form, "activity_type")
KnownActivity(c) == Activity(c) # None /\ Activity(c)[1] \in DOMAIN InitialEmissionFactors

\* The messages c's latest calculate() has flashed.
FlashedBy(c) ==
    {session[c][i].message : i \in {j \in 1..Len(session[c]) : session[c][j].id = req[c].no}}

PendingIds(c) == {session[c][i].id : i \in 1..Len(session[c])}

Rendered(c) ==
    /\ resp[c].kind = "result"
    /\ {"emissions", "alternative"} \subseteq DOMAIN resp[c]

ParseErrorOutcome(c) ==
    /\ resp[c] = [kind |-> "redirect", location |-> "index"]
    /\ FlashedBy(c) = {InvalidInputMessage}

ErrorRecords == {i \in 1..Len(log) : log[i].level = "ERROR"}

----------------------------------------------------------------------------
\* C1: for every amount text that is no number ("ten", "", "1,2") and every
\* activity_type, known, unknown or absent, calculate() takes the
\* except-ValueError path and ends with the fixed 'Invalid input...' message
\* flashed and a redirect to the input form; it never reaches the lookup, the
\* result view or the generic handler.
C1_ParseError ==
    \A c \in Clients :
        (HasAmount(c) /\ req[c].form.amount \in NonNumericTexts) =>
            /\ InFlight(c) => pc[c] = "except_ValueError"
            /\ Completed(c) => ParseErrorOutcome(c)

C1_Witness ==
    \E c \in Clients :
        /\ Completed(c)
        /\ req[c].form = [amount |-> T_1comma2]
        /\ ParseErrorOutcome(c)

\* C2: for every known key and every non-negative amount, calculate() renders
\* the result view with emissions = EMISSION_FACTORS[k] * amount, unrounded
\* and unclamped: electricity/10 -> 2.33, gasoline/5 -> 11.55,
\* natural_gas/2 -> 4.408.
C2_KnownKeyEmissions ==
    \A c \in Clients :
        (/\ HasAmount(c)
         /\ KnownActivity(c)
         /\ req[c].form.amount \in NumericTexts
         /\ FloatNonNegative(FloatValue(req[c].form.amount))) =>
            /\ InFlight(c) => pc[c] \in {"lookup", "render"}
            /\ Completed(c) =>
                /\ Rendered(c)
                /\ resp[c].emissions =
                       FloatMul(InitialEmissionFactors[req[c].form.activity_type],
                                FloatValue(req[c].form.amount))
                /\ req[c].form = [activity_type |-> "electricity", amount |-> T_10]
                       => resp[c].emissions = Fin(FALSE, 233, 100)
                /\ req[c].form = [activity_type |-> "gasoline", amount |-> T_5]
                       => resp[c].emissions = Fin(FALSE, 1155, 100)
                /\ req[c].form = [activity_type |-> "natural_gas", amount |-> T_2]
                       => resp[c].emissions = Fin(FALSE, 4408, 1000)

C2_Witness ==
    /\ Completed("c1")
    /\ req["c1"].form = [activity_type |-> "natural_gas", amount |-> T_2]
    /\ resp["c1"].emissions = Fin(FALSE, 4408, 1000)
    /\ Completed("c2")
    /\ req["c2"].form = [activity_type |-> "electricity", amount |-> T_inf]
    /\ resp["c2"].emissions = Inf(FALSE)

\* C3 as stated: for every activity_type that is no key of the table and every
\* amount float() accepts, negative values, 'inf' and 'nan' included,
\* calculate() succeeds with emissions == 0.0 and the fallback advisory.
C3_UnknownKeyZero ==
    \A c \in Clients :
        (HasAmount(c) /\ ~KnownActivity(c) /\ req[c].form.amount \in NumericTexts) =>
            /\ InFlight(c) => pc[c] \in {"lookup", "render"}
            /\ Completed(c) =>
                /\ Rendered(c)
                /\ FloatEq(resp[c].emissions, Fin(FALSE, 0, 1))
                /\ resp[c].alternative = DefaultSuggestion

\* C3 amended: for every activity_type that is no key of the table and every
\* amount float() accepts, calculate() succeeds with the fallback advisory;
\* emissions == 0.0 when the amount is finite (negative included, as -0.0),
\* and emissions is nan when the amount is 'inf' or 'nan'.
C3_UnknownKeyZeroIfFinite ==
    \A c \in Clients :
        (HasAmount(c) /\ ~KnownActivity(c) /\ req[c].form.amount \in NumericTexts) =>
            /\ InFlight(c) => pc[c] \in {"lookup", "render"}
            /\ Completed(c) =>
                /\ Rendered(c)
                /\ resp[c].alternative = DefaultSuggestion
                /\ IF FloatValue(req[c].form.amount).kind = "fin"
                   THEN FloatEq(resp[c].emissions, Fin(FALSE, 0, 1))
                   ELSE resp[c].emissions = NaN

C3_Witness ==
    /\ Completed("c1")
    /\ req["c1"].form = [activity_type |-> "solar", amount |-> T_minus3]
    /\ resp["c1"].emissions = Fin(TRUE, 0, 1)
    /\ Completed("c2")
    /\ req["c2"].form = [amount |-> T_inf]
    /\ resp["c2"].emissions = NaN

\* C4: the generic catch-all path is unreachable: no submission, one without
\* the amount or the activity_type field included, reaches the except-Exception
\* handler, flashes 'An error occurred. Please try again.' or logs the
\* unexpected-error record.
C4_GenericPathUnreachable ==
    /\ \A c \in Clients :
        /\ pc[c] # "except_Exception"
        /\ \A i \in 1..Len(session[c]) : session[c][i].message # GenericErrorMessage
    /\ \A i \in 1..Len(log) : log[i].msg # UnexpectedErrorLog

\* C5: every call of calculate() ends in exactly one of two outcomes: the
\* result view with emissions and alternative and no message queued, or
\* exactly one message appended to the flash queue and a redirect to the input
\* form.  The steps before the last one neither queue nor respond.
C5_Success(c) ==
    /\ resp'[c].kind = "result"
    /\ {"emissions", "alternative"} \subseteq DOMAIN resp'[c]
    /\ session'[c] = session[c]

C5_Failure(c) ==
    /\ resp'[c] = [kind |-> "redirect", location |-> "index"]
    /\ Len(session'[c]) = Len(session[c]) + 1
    /\ SubSeq(session'[c], 1, Len(session[c])) = session[c]
    /\ session'[c][Len(session'[c])].message \in {InvalidInputMessage, GenericErrorMessage}

C5_ExactlyOneOutcome ==
    [][\A c \in Clients :
          /\ (pc[c] # "idle" /\ pc'[c] = "idle") =>
                 /\ C5_Success(c) \/ C5_Failure(c)
                 /\ ~(C5_Success(c) /\ C5_Failure(c))
          /\ pc'[c] # "idle" => (session'[c] = session[c] /\ resp'[c].kind = "none")
      ]_vars

C5_Witness ==
    /\ Completed("c1")
    /\ Rendered("c1")
    /\ session["c1"] = <<>>
    /\ Completed("c2")
    /\ resp["c2"].kind = "redirect"
    /\ Len(session["c2"]) = 1

\* C6 as stated: a message queued by a failed calculate() is displayed on the
\* very next page rendered for that client and on no later page, and at most
\* one message is pending at any time.
C6_HandedOffOnNextPage ==
    \A c \in Clients :
        /\ Len(session[c]) <= 1
        /\ \A id \in PendingIds(c) : id > lastPage[c] /\ id \notin shown[c]

\* C6 amended: a message queued by a failed calculate() is displayed on the
\* next input-form page (index.html) rendered for that client and on no later
\* page; the result page neither displays nor removes it, so several messages
\* can be pending at once; no message is lost.
C6_HandedOffOnNextIndexPage ==
    /\ \A c \in Clients :
        /\ \A id \in PendingIds(c) : id > lastIndex[c] /\ id \notin shown[c]
        /\ resp[c].kind = "index" =>
               /\ session[c] = <<>>
               /\ \A i \in 1..Len(resp[c].messages) : resp[c].messages[i].id \in shown[c]
        /\ resp[c].kind = "result" => "messages" \notin DOMAIN resp[c]
        /\ Cardinality(PendingIds(c)) = Len(session[c])
    /\ Len(session["c1"]) + Cardinality(shown["c1"])
           + Len(session["c2"]) + Cardinality(shown["c2"]) = failed

C6_Witness ==
    \E c \in Clients :
        /\ resp[c].kind = "index"
        /\ Len(resp[c].messages) = 2
        /\ resp[c].messages[1].message = InvalidInputMessage
        /\ lastIndex[c] = 3

\* C7: the number of error-severity log records equals the number of calls of
\* calculate() that ended in a failure outcome: one record per failure, none
\* for a success.
C7_OneErrorRecordPerFailure == Cardinality(ErrorRecords) = failed

C7_Witness ==
    /\ Len(log) = 2
    /\ log[1].msg = InvalidInputLog
    /\ log[2].msg = UnexpectedErrorLog
    /\ \E c \in Clients : Completed(c) /\ Rendered(c)

\* C8: two calls of calculate() with identical (activity_type, amount) inputs
\* end in identical outcomes (same kind, same emissions, same advisory or
\* message), whatever was processed before or in between.
Outcome(c) == [response |-> resp[c], flashed |-> FlashedBy(c)]

C8_Deterministic ==
    \A c1, c2 \in Clients :
        (Completed(c1) /\ Completed(c2) /\ req[c1].form = req[c2].form) =>
            Outcome(c1) = Outcome(c2)

C8_Witness ==
    /\ Completed("c1")
    /\ Completed("c2")
    /\ req["c1"].form = [activity_type |-> "gasoline", amount |-> T_5]
    /\ req["c2"].form = req["c1"].form
    /\ req["c2"].no = 2
    /\ Rendered("c2")

\* C9: both tables are read-only after initialization: in every reachable
\* state, under every interleaving of concurrent requests, each holds exactly
\* its three initial entries; a lookup of an unknown key inserts nothing.
C9_TablesReadOnly ==
    /\ EMISSION_FACTORS = InitialEmissionFactors
    /\ ALTERNATIVES = InitialAlternatives
    /\ DOMAIN EMISSION_FACTORS = KnownKeys
    /\ DOMAIN ALTERNATIVES = KnownKeys

C9_Witness ==
    /\ pc["c1"] = "render"
    /\ frame["c1"].activity_type = Some("solar")
    /\ pc["c2"] = "render"
    /\ frame["c2"].activity_type = None

\* C10: on success the advisory depends on activity_type alone: for a known
\* key it is ALTERNATIVES[k] whatever the amount, it is the fallback string
\* exactly when activity_type is no key of the Advisory table, and since both
\* tables have the same keys a fallback advisory goes with a zero coefficient.
C10_AdvisoryByActivity ==
    /\ DOMAIN ALTERNATIVES = DOMAIN EMISSION_FACTORS
    /\ \A c \in Clients :
        (Completed(c) /\ resp[c].kind = "result") =>
            LET k == Activity(c)
                known == k # None /\ k[1] \in DOMAIN ALTERNATIVES
            IN  /\ known => resp[c].alternative = ALTERNATIVES[k[1]]
                /\ resp[c].alternative = DefaultSuggestion <=> ~known
                /\ resp[c].alternative = DefaultSuggestion =>
                       DictGet(EMISSION_FACTORS, k, DefaultFactor) = Fin(FALSE, 0, 1)
    /\ \A c1, c2 \in Clients :
        (/\ Completed(c1) /\ resp[c1].kind = "result"
         /\ Completed(c2) /\ resp[c2].kind = "result"
         /\ Activity(c1) = Activity(c2)) =>
            resp[c1].alternative = resp[c2].alternative

C10_Witness ==
    /\ Completed("c1")
    /\ Completed("c2")
    /\ req["c1"].form = [activity_type |-> "electricity", amount |-> T_minus3]
    /\ req["c2"].form = [activity_type |-> "electricity", amount |-> T_0]
    /\ resp["c1"].alternative = InitialAlternatives["electricity"]
    /\ resp["c2"].alternative = InitialAlternatives["electricity"]

====
